---- MODULE Spec2Model ----
(***************************************************************************)
(* Model of prepare_text_data.ipynb: the notebook creates a vectorizer     *)
(* (CountVectorizer, TfidfVectorizer, HashingVectorizer of scikit-learn    *)
(* 0.19), fits it on a list of documents `text` and transforms lists of    *)
(* documents into a matrix `vector`.  A document is a sequence of          *)
(* one-character strings; a token is a sequence of one-character strings.  *)
(* Floating-point results are kept in fixed point, Scale units per 1.0.    *)
(***************************************************************************)
EXTENDS Integers, Sequences, FiniteSets, TLC

(***************************************************************************)
(* Characters and their code points (Python str ordering and UTF-8 bytes). *)
(***************************************************************************)
Chars ==
  << " ", ".", "2", "4", "D", "J", "T", "_",
     "a", "b", "c", "d", "e", "f", "g", "h", "i", "j", "k", "l", "m",
     "n", "o", "p", "q", "r", "s", "t", "u", "v", "w", "x", "y", "z" >>

Codes ==
  << 32, 46, 50, 52, 68, 74, 84, 95,
     97, 98, 99, 100, 101, 102, 103, 104, 105, 106, 107, 108, 109,
     110, 111, 112, 113, 114, 115, 116, 117, 118, 119, 120, 121, 122 >>

Alphabet == { Chars[i] : i \in 1..Len(Chars) }

\* ord(c), tabulated over Alphabet
OrdTable == [c \in Alphabet |-> Codes[CHOOSE i \in 1..Len(Chars) : Chars[i] = c]]

Ord(c) == OrdTable[c]

Chr(n) == Chars[CHOOSE i \in 1..Len(Codes) : Codes[i] = n]

IsUpper(c) == Ord(c) >= 65 /\ Ord(c) <= 90

IsLowerAlpha(c) == Ord(c) >= 97 /\ Ord(c) <= 122

IsDigit(c) == Ord(c) >= 48 /\ Ord(c) <= 57

\* \w of the token pattern: letters, digits and the underscore
IsWordChar(c) == IsUpper(c) \/ IsLowerAlpha(c) \/ IsDigit(c) \/ c = "_"

\* mutant: the preprocessor does not lower-case
LowerCharMutant(c) == c

\* str.lower(), the preprocessor of the default analyzer (lowercase=True)
LowerChar(c) == IF IsUpper(c) THEN Chr(Ord(c) + 32) ELSE c

Lower(doc) == [i \in 1..Len(doc) |-> LowerChar(doc[i])]

(***************************************************************************)
(* Helpers over sequences.                                                 *)
(***************************************************************************)
Range(s) == { s[i] : i \in 1..Len(s) }

\* Python's str comparison: lexicographic by code point
RECURSIVE StrLess(_, _)
StrLess(a, b) ==
  IF a = <<>> THEN b # <<>>
  ELSE IF b = <<>> THEN FALSE
  ELSE IF Ord(a[1]) # Ord(b[1]) THEN Ord(a[1]) < Ord(b[1])
  ELSE StrLess(Tail(a), Tail(b))

(***************************************************************************)
(* token_pattern (?u)\b\w\w+\b applied with findall: the maximal runs of   *)
(* word characters that are two or more characters long, in order.         *)
(***************************************************************************)
MinTokenLen == 2

Flush(acc, cur) == IF Len(cur) >= MinTokenLen THEN Append(acc, cur) ELSE acc

RECURSIVE FindAll(_, _, _, _)
FindAll(s, i, cur, acc) ==
  IF i > Len(s) THEN Flush(acc, cur)
  ELSE IF IsWordChar(s[i]) THEN FindAll(s, i + 1, Append(cur, s[i]), acc)
  ELSE FindAll(s, i + 1, <<>>, Flush(acc, cur))

\* build_analyzer(): tokenize(preprocess(doc)), word 1-grams, no stop words
Analyzer(doc) == FindAll(Lower(doc), 1, <<>>, <<>>)

(***************************************************************************)
(* The literals of the notebook.                                           *)
(***************************************************************************)
\* "The quick brown fox jumped over the lazy dog."
QuickBrownFox ==
  << "T","h","e"," ","q","u","i","c","k"," ","b","r","o","w","n"," ",
     "f","o","x"," ","j","u","m","p","e","d"," ","o","v","e","r"," ",
     "t","h","e"," ","l","a","z","y"," ","d","o","g","." >>

\* "The dog."
TheDog == << "T","h","e"," ","d","o","g","." >>

\* "The fox"
TheFox == << "T","h","e"," ","f","o","x" >>

\* "the puppy"
ThePuppy == << "t","h","e"," ","p","u","p","p","y" >>

\* text of the CountVectorizer and HashingVectorizer cells
Text1 == << QuickBrownFox >>

\* text of the TfidfVectorizer cell
Text3 == << QuickBrownFox, TheDog, TheFox >>

\* text2 of the CountVectorizer cell
Text2 == << ThePuppy >>

\* n_features of the HashingVectorizer cell
NotebookWidth == 20

(***************************************************************************)
(* Inputs: a fit is given up to MaxDocs documents and a transform up to    *)
(* MaxBatch documents of Docs, or one of the notebook's own lists.         *)
(***************************************************************************)
MaxDocs == 2

MaxBatch == 1

\* ""
Empty == << >>

\* "a b": no word is long enough to be a token
ShortWords == << "a", " ", "b" >>

\* "dog."
DogOnly == << "d","o","g","." >>

\* "Jumped dog."
JumpedDog == << "J","u","m","p","e","d"," ","d","o","g","." >>

\* "Dog dog."
DogDog == << "D","o","g"," ","d","o","g","." >>

Docs == { Empty, ShortWords, DogOnly, JumpedDog, DogDog }

SeqsUpTo(S, n) == UNION { [1..k -> S] : k \in 0..n }

\* every document a fit or a transform of the model is given
AllDocs == Docs \cup Range(Text1) \cup Range(Text2) \cup Range(Text3)

Corpora == SeqsUpTo(Docs, MaxDocs) \cup { Text1, Text3 }

Batches == SeqsUpTo(Docs, MaxBatch) \cup { Text1, Text2 }

Widths == { -1, 0, 1, 3, NotebookWidth }

(***************************************************************************)
(* The analyzer and the hash applied to the documents of the model, each   *)
(* tabulated once.                                                         *)
(***************************************************************************)
AnalyzeTable == [doc \in AllDocs |-> Analyzer(doc)]

\* analyze(doc)
Analyze(doc) == IF doc \in AllDocs THEN AnalyzeTable[doc] ELSE Analyzer(doc)

AllTokens == UNION { Range(AnalyzeTable[doc]) : doc \in AllDocs }

(***************************************************************************)
(* CountVectorizer._count_vocab and _sort_features.                        *)
(***************************************************************************)
\* the defaultdict of fit: every new feature gets the next index, so the
\* features are listed here in first-seen order
RECURSIVE AddFeatures(_, _)
AddFeatures(seen, toks) ==
  IF toks = <<>> THEN seen
  ELSE AddFeatures(IF Head(toks) \in Range(seen) THEN seen
                   ELSE Append(seen, Head(toks)), Tail(toks))

RECURSIVE FirstSeen(_, _)
FirstSeen(seen, raw_documents) ==
  IF raw_documents = <<>> THEN seen
  ELSE FirstSeen(AddFeatures(seen, Analyze(Head(raw_documents))),
                 Tail(raw_documents))

RECURSIVE Insert(_, _)
Insert(t, sorted) ==
  IF sorted = <<>> THEN <<t>>
  ELSE IF StrLess(t, Head(sorted)) THEN <<t>> \o sorted
  ELSE <<Head(sorted)>> \o Insert(t, Tail(sorted))

\* sorted(vocabulary.items())
RECURSIVE SortedFeatures(_)
SortedFeatures(seen) ==
  IF seen = <<>> THEN <<>> ELSE Insert(Head(seen), SortedFeatures(Tail(seen)))

\* mutant: the indices of first appearance are kept, the features not sorted
SortFeaturesMutant(seen) ==
  [t \in Range(seen) |-> (CHOOSE i \in 1..Len(seen) : seen[i] = t) - 1]

\* _sort_features: vocabulary[term] = new_val for new_val, term in
\* enumerate(sorted(vocabulary)); indices are 0-based
SortFeatures(seen) ==
  LET sorted == SortedFeatures(seen)
  IN  [t \in Range(seen) |-> (CHOOSE i \in 1..Len(sorted) : sorted[i] = t) - 1]

\* the vocabulary fit would learn from raw_documents
LearnVocabulary(raw_documents) == SortFeatures(FirstSeen(<<>>, raw_documents))

\* mutant: a feature is marked present, not counted (binary=True)
RECURSIVE CountRowBinary(_, _, _)
CountRowBinary(vocabulary, toks, row) ==
  IF toks = <<>> THEN row
  ELSE IF Head(toks) \in DOMAIN vocabulary
       THEN CountRowBinary(vocabulary, Tail(toks),
                           [row EXCEPT ![vocabulary[Head(toks)] + 1] = 1])
       ELSE CountRowBinary(vocabulary, Tail(toks), row)

\* mutant: an unknown feature is looked up as index -1, the last column
RECURSIVE CountRowUnknownLast(_, _, _)
CountRowUnknownLast(vocabulary, toks, row) ==
  IF toks = <<>> THEN row
  ELSE IF Head(toks) \in DOMAIN vocabulary
       THEN CountRowUnknownLast(vocabulary, Tail(toks),
                                [row EXCEPT ![vocabulary[Head(toks)] + 1] = @ + 1])
       ELSE CountRowUnknownLast(vocabulary, Tail(toks),
                                [row EXCEPT ![Len(row)] = @ + 1])

\* one row of _count_vocab(fixed_vocab=True): feature_counter[vocabulary[f]]
\* += 1 for every feature of the document, a KeyError being skipped; column
\* j of the row is vocabulary index j - 1
RECURSIVE CountRow(_, _, _)
CountRow(vocabulary, toks, row) ==
  IF toks = <<>> THEN row
  ELSE IF Head(toks) \in DOMAIN vocabulary
       THEN CountRow(vocabulary, Tail(toks),
                     [row EXCEPT ![vocabulary[Head(toks)] + 1] = @ + 1])
       ELSE CountRow(vocabulary, Tail(toks), row)

ZeroRow(n) == [j \in 1..n |-> 0]

CountMatrix(vocabulary, raw_documents) ==
  [d \in 1..Len(raw_documents) |->
     CountRow(vocabulary, Analyze(raw_documents[d]),
              ZeroRow(Cardinality(DOMAIN vocabulary)))]

(***************************************************************************)
(* Fixed-point arithmetic standing for float64.                            *)
(***************************************************************************)
Scale == 1000

LnScale == 1000000

\* a / b rounded to the nearest integer, b > 0
RoundDiv(a, b) == (2 * a + b) \div (2 * b)

RECURSIVE IsqrtIter(_, _)
IsqrtIter(n, r) ==
  LET r2 == (r + n \div r) \div 2
  IN  IF r2 >= r THEN r ELSE IsqrtIter(n, r2)

\* floor of the square root
Isqrt(n) == IF n < 2 THEN n ELSE IsqrtIter(n, n)

\* sum over k of z^(2k+1) / (2k+1) with z = num / den, in LnScale units;
\* term is z^(2k+1)
RECURSIVE AtanhSeries(_, _, _, _)
AtanhSeries(term, k, num, den) ==
  IF term = 0 THEN 0
  ELSE term \div (2 * k + 1)
       + AtanhSeries((term * num * num) \div (den * den), k + 1, num, den)

\* np.log(p / q) for p >= q >= 1, in Scale units: 2 * atanh((p-q)/(p+q))
Log(p, q) ==
  RoundDiv(2 * AtanhSeries(((p - q) * LnScale) \div (p + q), 0, p - q, p + q),
           LnScale \div Scale)

(***************************************************************************)
(* TfidfTransformer (smooth_idf=True, sublinear_tf=False, norm="l2").      *)
(***************************************************************************)
\* mutant: the rows without the feature are counted
DocumentFrequencyMutant(X, j) == Cardinality({ d \in 1..Len(X) : X[d][j] = 0 })

\* _document_frequency: number of rows with a non-zero entry in column j
DocumentFrequency(X, j) == Cardinality({ d \in 1..Len(X) : X[d][j] # 0 })

\* idf = log((n_samples + 1) / (df + 1)) + 1
Idf(n_samples, df) == Log(n_samples + 1, df + 1) + Scale

IdfVector(X, n_features) ==
  [j \in 1..n_features |-> Idf(Len(X), DocumentFrequency(X, j))]

RECURSIVE SumSquares(_, _)
SumSquares(row, j) ==
  IF j > Len(row) THEN 0 ELSE row[j] * row[j] + SumSquares(row, j + 1)

\* the Euclidean norm of a row, in the units of the row
Norm(row) == Isqrt(SumSquares(row, 1))

RECURSIVE SumAbs(_, _)
SumAbs(row, j) ==
  IF j > Len(row) THEN 0
  ELSE (IF row[j] < 0 THEN -row[j] ELSE row[j]) + SumAbs(row, j + 1)

\* mutant: the rows are scaled to unit l1 norm
NormalizeRowL1(row) ==
  LET norm == SumAbs(row, 1)
  IN  IF norm = 0 THEN row
      ELSE [j \in 1..Len(row) |-> RoundDiv(row[j] * Scale, norm)]

\* sklearn.preprocessing.normalize(X, norm="l2"): a row whose norm is zero
\* is left as it is
NormalizeRow(row) ==
  LET norm == Norm(row)
  IN  IF norm = 0 THEN row
      ELSE [j \in 1..Len(row) |-> RoundDiv(row[j] * Scale, norm)]

Normalize(X) == [d \in 1..Len(X) |-> NormalizeRow(X[d])]

\* X * idf_diag followed by normalize
TfidfMatrix(vocabulary, idf, raw_documents) ==
  LET X == CountMatrix(vocabulary, raw_documents)
  IN  Normalize([d \in 1..Len(X) |->
                   [j \in 1..Len(X[d]) |-> X[d][j] * idf[j]]])

(***************************************************************************)
(* MurmurHash3_x86_32 with seed 0 (murmurhash3_bytes_s32), the hash of     *)
(* FeatureHasher.  A 32-bit word is the pair <<high 16 bits, low 16 bits>>.*)
(***************************************************************************)
Half == 65536

RECURSIVE Xor16(_, _)
Xor16(a, b) ==
  IF a = 0 THEN b
  ELSE IF b = 0 THEN a
  ELSE ((a + b) % 2) + 2 * Xor16(a \div 2, b \div 2)

Xor32(x, y) == << Xor16(x[1], y[1]), Xor16(x[2], y[2]) >>

\* (a * b) mod 2^16 for 16-bit a and b, by bytes
MulLow16(a, b) ==
  (((a % 256) * (b % 256))
   + ((((a \div 256) * (b % 256)) + ((a % 256) * (b \div 256))) % 256) * 256)
  % Half

\* the full 32-bit product of 16-bit a and b, as a word
MulFull16(a, b) ==
  LET p0 == (a % 256) * (b % 256)
      m  == (a \div 256) * (b % 256) + (a % 256) * (b \div 256)
      p2 == (a \div 256) * (b \div 256)
      lowsum == p0 + (m % 256) * 256
  IN  << (p2 + m \div 256 + lowsum \div Half) % Half, lowsum % Half >>

\* (x * y) mod 2^32
Mul32(x, y) ==
  LET ll == MulFull16(x[2], y[2])
  IN  << (ll[1] + MulLow16(x[1], y[2]) + MulLow16(x[2], y[1])) % Half, ll[2] >>

\* (x + y) mod 2^32
Add32(x, y) ==
  << (x[1] + y[1] + (x[2] + y[2]) \div Half) % Half, (x[2] + y[2]) % Half >>

\* rotate left by r bits, 0 < r < 16
Rotl32(x, r) ==
  << ((x[1] * (2 ^ r)) % Half) + (x[2] \div (2 ^ (16 - r))),
     ((x[2] * (2 ^ r)) % Half) + (x[1] \div (2 ^ (16 - r))) >>

\* x >> 16 and x >> 13
Shr16(x) == << 0, x[1] >>

Shr13(x) == << x[1] \div 8192, ((x[1] % 8192) * 8) + (x[2] \div 8192) >>

C1Word == << 52382, 11601 >>  \* 0xcc9e2d51

C2Word == << 7047, 13715 >>   \* 0x1b873593

NWord == << 58964, 27492 >>   \* 0xe6546b64

F1Word == << 34283, 51819 >>  \* 0x85ebca6b

F2Word == << 49842, 44597 >>  \* 0xc2b2ae35

\* k *= c1; k = rotl(k, 15); k *= c2
MixK(k) == Mul32(Rotl32(Mul32(k, C1Word), 15), C2Word)

\* byte i of the key, 0 beyond its end
ByteAt(bytes, i) == IF i <= Len(bytes) THEN bytes[i] ELSE 0

\* the body: one round per complete 4-byte little-endian block
RECURSIVE Body(_, _, _)
Body(bytes, i, h) ==
  IF i + 3 > Len(bytes) THEN h
  ELSE LET k  == << bytes[i + 3] * 256 + bytes[i + 2],
                    bytes[i + 1] * 256 + bytes[i] >>
           h1 == Rotl32(Xor32(h, MixK(k)), 13)
       IN  Body(bytes, i + 4, Add32(Mul32(h1, << 0, 5 >>), NWord))

\* the tail: the 1 to 3 bytes left after the last complete block
Tail32(bytes, h) ==
  LET i == (Len(bytes) \div 4) * 4 + 1
  IN  IF i > Len(bytes) THEN h
      ELSE Xor32(h, MixK(<< ByteAt(bytes, i + 2),
                            ByteAt(bytes, i + 1) * 256 + bytes[i] >>))

\* fmix32
Fmix(h) ==
  LET h1 == Mul32(Xor32(h, Shr16(h)), F1Word)
      h2 == Mul32(Xor32(h1, Shr13(h1)), F2Word)
  IN  Xor32(h2, Shr16(h2))

Murmur3(bytes) ==
  Fmix(Xor32(Tail32(bytes, Body(bytes, 1, << 0, 0 >>)), << 0, Len(bytes) >>))

\* token.encode("utf-8") for the characters of Alphabet
Encode(tok) == [i \in 1..Len(tok) |-> Ord(tok[i])]

\* the hash read as a signed 32-bit integer is negative
IsNegative(h) == h[1] >= 32768

\* abs(h) of the signed value of h; no token of the model hashes to -2^31
AbsValue(h) ==
  IF IsNegative(h) THEN (65535 - h[1]) * Half + (Half - h[2])
  ELSE h[1] * Half + h[2]

(***************************************************************************)
(* FeatureHasher.transform (alternate_sign=True) and HashingVectorizer.    *)
(***************************************************************************)
HashTable == [tok \in AllTokens |-> Murmur3(Encode(tok))]

\* h = murmurhash3_bytes_s32(token, 0)
Hash(tok) == IF tok \in AllTokens THEN HashTable[tok] ELSE Murmur3(Encode(tok))

\* mutant: abs() is missing, and the C remainder of a negative hash is negative
HashIndexNoAbs(tok, n_features) ==
  IF IsNegative(Hash(tok)) THEN -(AbsValue(Hash(tok)) % n_features)
  ELSE AbsValue(Hash(tok)) % n_features

\* indices[i] = abs(h) % n_features
HashIndex(tok, n_features) == AbsValue(Hash(tok)) % n_features

\* value *= (h >= 0) * 2 - 1
HashSign(tok) == IF IsNegative(Hash(tok)) THEN -1 ELSE 1

\* column j of the row is slot j - 1
RECURSIVE HashRow(_, _, _)
HashRow(n_features, toks, row) ==
  IF toks = <<>> THEN row
  ELSE HashRow(n_features, Tail(toks),
               [row EXCEPT ![HashIndex(Head(toks), n_features) + 1] =
                             @ + HashSign(Head(toks))])

\* the signed sums before normalization
HashCounts(n_features, raw_documents) ==
  [d \in 1..Len(raw_documents) |->
     HashRow(n_features, Analyze(raw_documents[d]), ZeroRow(n_features))]

\* HashingVectorizer.transform: hash, then normalize (norm="l2")
HashMatrix(n_features, raw_documents) ==
  LET X == HashCounts(n_features, raw_documents)
  IN  Normalize([d \in 1..Len(X) |->
                   [j \in 1..n_features |-> X[d][j] * Scale]])

(***************************************************************************)
(* State.                                                                  *)
(***************************************************************************)
VARIABLES
  vectorizer,  \* the object bound to `vectorizer`
  vector,      \* the matrix returned by the last call, <<>> if it returned none
  raised,      \* the exception the last call raised, "None" if it returned
  call,        \* the last call: its name, its argument and the vectorizer
               \* it was made on, as it was before the call
  fit_returned,\* a fit of the current vectorizer has returned
  raw_text,    \* the raw text handed to the analyzer on its own
  tokens       \* the tokens the analyzer returned for raw_text

vars == << vectorizer, vector, raised, call, fit_returned, raw_text, tokens >>

NoVocabulary == [t \in {} |-> 0]

\* CountVectorizer(): no vocabulary_ attribute yet
CountVectorizer ==
  [class |-> "CountVectorizer", fitted |-> FALSE,
   vocabulary_ |-> NoVocabulary, idf_ |-> <<>>, n_features |-> 0]

\* TfidfVectorizer(): no vocabulary_ and no idf_ yet
TfidfVectorizer ==
  [class |-> "TfidfVectorizer", fitted |-> FALSE,
   vocabulary_ |-> NoVocabulary, idf_ |-> <<>>, n_features |-> 0]

\* HashingVectorizer(n_features=n): the constructor only stores n
HashingVectorizer(n) ==
  [class |-> "HashingVectorizer", fitted |-> FALSE,
   vocabulary_ |-> NoVocabulary, idf_ |-> <<>>, n_features |-> n]

HasVocabulary(v) == v.class \in { "CountVectorizer", "TfidfVectorizer" }

Returned(op, arg, v, m) ==
  /\ vectorizer' = v
  /\ vector' = m
  /\ raised' = "None"
  /\ call' = [op |-> op, arg |-> arg, before |-> vectorizer]
  /\ fit_returned' = IF op = "new" THEN FALSE ELSE (fit_returned \/ op = "fit")
  /\ UNCHANGED << raw_text, tokens >>

Raised(op, arg, e) ==
  /\ vectorizer' = vectorizer
  /\ vector' = <<>>
  /\ raised' = e
  /\ call' = [op |-> op, arg |-> arg, before |-> vectorizer]
  /\ fit_returned' = fit_returned
  /\ UNCHANGED << raw_text, tokens >>

Init ==
  /\ vectorizer = CountVectorizer
  /\ vector = <<>>
  /\ raised = "None"
  /\ call = [op |-> "new", arg |-> <<>>, before |-> CountVectorizer]
  /\ fit_returned = FALSE
  /\ raw_text = <<>>
  /\ tokens = <<>>

NewCountVectorizer == Returned("new", <<>>, CountVectorizer, <<>>)

NewTfidfVectorizer == Returned("new", <<>>, TfidfVectorizer, <<>>)

NewHashingVectorizer ==
  \E n \in Widths : Returned("new", <<>>, HashingVectorizer(n), <<>>)

\* FeatureHasher._validate_params, run by every fit and transform of a
\* HashingVectorizer
ValidFeatures(n) == n >= 1

\* mutant: the check for an empty vocabulary is missing
EmptyVocabularyMutant(raw_documents) == FALSE

\* `if not vocabulary: raise ValueError("empty vocabulary; ...")`
EmptyVocabulary(raw_documents) == FirstSeen(<<>>, raw_documents) = <<>>

\* the state fit leaves behind when it returns
Fitted(v, raw_documents) ==
  LET vocabulary == LearnVocabulary(raw_documents)
      X == CountMatrix(vocabulary, raw_documents)
  IN  [v EXCEPT !.fitted = TRUE,
                !.vocabulary_ = vocabulary,
                !.idf_ = IF v.class = "TfidfVectorizer"
                         THEN IdfVector(X, Cardinality(DOMAIN vocabulary))
                         ELSE <<>>]

\* vectorizer.fit(raw_documents)
Fit ==
  \E raw_documents \in Corpora :
    IF HasVocabulary(vectorizer)
    THEN IF EmptyVocabulary(raw_documents)
         THEN Raised("fit", raw_documents, "ValueError: empty vocabulary")
         ELSE Returned("fit", raw_documents,
                       Fitted(vectorizer, raw_documents), <<>>)
    ELSE IF ValidFeatures(vectorizer.n_features)
         THEN Returned("fit", raw_documents, vectorizer, <<>>)
         ELSE Raised("fit", raw_documents,
                     "ValueError: invalid number of features")

\* the matrix transform returns
TransformMatrix(v, raw_documents) ==
  IF v.class = "CountVectorizer"
  THEN CountMatrix(v.vocabulary_, raw_documents)
  ELSE IF v.class = "TfidfVectorizer"
  THEN TfidfMatrix(v.vocabulary_, v.idf_, raw_documents)
  ELSE HashMatrix(v.n_features, raw_documents)

\* mutant: transform looks features up in the defaultdict of fit, which adds
\* every unknown feature to the vocabulary
AfterTransformMutant(v, raw_documents) ==
  IF v.fitted
  THEN LET grown == FirstSeen(<<>>, raw_documents)
           known == DOMAIN v.vocabulary_
           new == { t \in Range(grown) : t \notin known }
       IN  [v EXCEPT !.vocabulary_ =
              [t \in known \cup new |->
                 IF t \in known THEN v.vocabulary_[t]
                 ELSE Cardinality(known)
                      + (CHOOSE i \in 1..Len(grown) : grown[i] = t) - 1]]
  ELSE v

\* the vectorizer after transform(raw_documents): the vocabulary is fixed
\* (fixed_vocab=True) and nothing is stored
AfterTransform(v, raw_documents) == v

\* vector = vectorizer.transform(raw_documents)
Transform ==
  \E raw_documents \in Batches :
    IF HasVocabulary(vectorizer)
    THEN IF ~vectorizer.fitted
         THEN Raised("transform", raw_documents, "NotFittedError")
         ELSE Returned("transform", raw_documents,
                       AfterTransform(vectorizer, raw_documents),
                       TransformMatrix(vectorizer, raw_documents))
    ELSE IF ValidFeatures(vectorizer.n_features)
         THEN Returned("transform", raw_documents,
                       AfterTransform(vectorizer, raw_documents),
                       TransformMatrix(vectorizer, raw_documents))
         ELSE Raised("transform", raw_documents,
                     "ValueError: invalid number of features")

Next ==
  \/ NewCountVectorizer
  \/ NewTfidfVectorizer
  \/ NewHashingVectorizer
  \/ Fit
  \/ Transform

Spec == Init /\ [][Next]_vars

(***************************************************************************)
(* The analyzer on its own: build_analyzer()(raw_text) for every raw text   *)
(* of up to MaxLen characters of TokenChars.                               *)
(***************************************************************************)
MaxLen == 3

TokenChars == { "T", "a", "4", "_", "." }

RawTexts == SeqsUpTo(TokenChars, MaxLen)

InitTok ==
  /\ vectorizer = CountVectorizer
  /\ vector = <<>>
  /\ raised = "None"
  /\ call = [op |-> "new", arg |-> <<>>, before |-> CountVectorizer]
  /\ fit_returned = FALSE
  /\ raw_text \in RawTexts
  /\ tokens = <<>>

\* tokens = vectorizer.build_analyzer()(raw_text)
AnalyzeDoc ==
  /\ call.op = "new"
  /\ tokens' = Analyze(raw_text)
  /\ call' = [op |-> "analyze", arg |-> << raw_text >>, before |-> vectorizer]
  /\ UNCHANGED << vectorizer, vector, raised, fit_returned, raw_text >>

NextTok == AnalyzeDoc

SpecTok == InitTok /\ [][NextTok]_vars

(***************************************************************************)
(* Properties.                                                             *)
(***************************************************************************)
The == << "t", "h", "e" >>

Jumped == << "j", "u", "m", "p", "e", "d" >>

Dog == << "d", "o", "g" >>

VocabularySize == Cardinality(DOMAIN vectorizer.vocabulary_)

\* the distinct tokens of a list of documents
TokensOf(raw_documents) ==
  UNION { Range(Analyze(raw_documents[d])) : d \in 1..Len(raw_documents) }

\* the document holds no token of the fitted vocabulary
NoKnownToken(d) == Range(Analyze(d)) \cap DOMAIN vectorizer.vocabulary_ = {}

\* number of entries of toks equal to t
RECURSIVE CountOf(_, _)
CountOf(t, toks) ==
  IF toks = <<>> THEN 0
  ELSE (IF Head(toks) = t THEN 1 ELSE 0) + CountOf(t, Tail(toks))

RECURSIVE SumRow(_, _)
SumRow(row, j) == IF j > Len(row) THEN 0 ELSE row[j] + SumRow(row, j + 1)

IsZeroRow(row) == \A j \in 1..Len(row) : row[j] = 0

CountReturned ==
  /\ vectorizer.class = "CountVectorizer"
  /\ call.op = "transform"
  /\ raised = "None"

\* C1: a fitted Count encoder's transform never raises; every row it returns
\* holds, at each vocabulary index, the number of occurrences of that
\* vocabulary token among the tokens of the document, and nothing else (the
\* row sums to the number of token occurrences that are in the vocabulary);
\* fitted on the quick-brown-fox sentence the vocabulary has 8 tokens and the
\* sentence transforms to 2 at the slot of "the" and 1 at every other slot.
C1_CountsMatchTally ==
  /\ (vectorizer.class = "CountVectorizer" /\ vectorizer.fitted
      /\ call.op = "transform") => raised = "None"
  /\ CountReturned =>
       /\ Len(vector) = Len(call.arg)
       /\ \A d \in 1..Len(call.arg) :
            LET toks == Analyze(call.arg[d])
            IN  /\ Len(vector[d]) = VocabularySize
                /\ \A t \in DOMAIN vectorizer.vocabulary_ :
                     vector[d][vectorizer.vocabulary_[t] + 1] = CountOf(t, toks)
                /\ SumRow(vector[d], 1) =
                     Cardinality({ i \in 1..Len(toks) :
                                     toks[i] \in DOMAIN vectorizer.vocabulary_ })
  /\ (CountReturned /\ DOMAIN vectorizer.vocabulary_ = TokensOf(Text1)) =>
       /\ VocabularySize = 8
       /\ call.arg = Text1 =>
            \A t \in DOMAIN vectorizer.vocabulary_ :
              vector[1][vectorizer.vocabulary_[t] + 1] = IF t = The THEN 2 ELSE 1

\* the quick-brown-fox sentence transformed by the vocabulary fitted on it
C1_Witness ==
  /\ CountReturned
  /\ call.arg = Text1
  /\ VocabularySize = 8
  /\ vector = << << 1, 1, 1, 1, 1, 1, 1, 2 >> >>

FitReturned ==
  /\ HasVocabulary(vectorizer)
  /\ call.op = "fit"
  /\ raised = "None"

\* C2: right after a fit of a Count or TF-IDF encoder returns, the vocabulary
\* maps exactly the distinct tokens of the corpus one-to-one onto 0..n-1, a
\* token that sorts lower (by code point) getting the lower index.
C2_VocabularyIsSortedBijection ==
  FitReturned =>
    LET vocabulary == vectorizer.vocabulary_
    IN  /\ vectorizer.fitted
        /\ DOMAIN vocabulary = TokensOf(call.arg)
        /\ { vocabulary[t] : t \in DOMAIN vocabulary } =
             0..(Cardinality(TokensOf(call.arg)) - 1)
        /\ \A t, u \in DOMAIN vocabulary :
             StrLess(t, u) => vocabulary[t] < vocabulary[u]

\* a fit whose corpus shows "jumped" before "dog": the sorted order differs
\* from the order of first appearance
C2_Witness ==
  /\ FitReturned
  /\ call.arg = << JumpedDog >>
  /\ vectorizer.vocabulary_[Dog] = 0
  /\ vectorizer.vocabulary_[Jumped] = 1

\* C3: a transform of a Count or TF-IDF encoder on which no fit has returned
\* so far raises NotFittedError and returns nothing; a fit of such an encoder
\* on a corpus without tokens raises the empty-vocabulary error, leaves the
\* encoder as it was and is no fit that returned; the encoder holds a
\* vocabulary exactly when a fit of it has returned.
C3_NotFittedUntilFitSucceeds ==
  /\ (HasVocabulary(vectorizer) /\ call.op = "transform" /\ ~fit_returned)
       => (raised = "NotFittedError" /\ vector = <<>>)
  /\ (HasVocabulary(vectorizer) /\ call.op = "fit" /\ TokensOf(call.arg) = {})
       => /\ raised = "ValueError: empty vocabulary"
          /\ vectorizer = call.before
          /\ fit_returned = call.before.fitted
  /\ HasVocabulary(vectorizer) => (vectorizer.fitted <=> fit_returned)

\* a transform of a TF-IDF encoder refused for want of a fit
C3_Witness ==
  /\ vectorizer.class = "TfidfVectorizer"
  /\ ~fit_returned
  /\ call.op = "transform"
  /\ call.arg = << JumpedDog >>
  /\ raised = "NotFittedError"

\* C4: a transform leaves the encoder, its vocabulary and its idf table as
\* they were before the call, whatever the documents; only a fit or the
\* creation of a new encoder changes them, so every row a transform returns
\* is as long as the vocabulary that fit left.
C4_TransformIsReadOnly ==
  /\ call.op = "transform" =>
       /\ vectorizer = call.before
       /\ (HasVocabulary(vectorizer) /\ raised = "None") =>
            /\ Len(vector) = Len(call.arg)
            /\ \A d \in 1..Len(vector) :
                 Len(vector[d]) = Cardinality(DOMAIN call.before.vocabulary_)
  /\ vectorizer # call.before => call.op \in { "fit", "new" }

\* "the puppy", with a token outside the vocabulary, transformed by a TF-IDF
\* encoder fitted on the notebook's three documents
C4_Witness ==
  /\ vectorizer.class = "TfidfVectorizer"
  /\ call.op = "transform"
  /\ call.arg = Text2
  /\ VocabularySize = 8
  /\ Len(vector[1]) = 8
  /\ vector[1][8] = Scale

\* C5: a transform of a fitted Count or TF-IDF encoder never raises, and the
\* row of a document without any vocabulary token (no token at all, or only
\* tokens outside the vocabulary) is the all-zero row of vocabulary length.
C5_NoKnownTokenGivesZeroRow ==
  (HasVocabulary(vectorizer) /\ vectorizer.fitted /\ call.op = "transform") =>
    /\ raised = "None"
    /\ Len(vector) = Len(call.arg)
    /\ \A d \in 1..Len(call.arg) :
         NoKnownToken(call.arg[d]) => vector[d] = ZeroRow(VocabularySize)

\* "a b", whose words are too short to be tokens, transformed by a fitted
\* TF-IDF encoder
C5_Witness ==
  /\ vectorizer.class = "TfidfVectorizer"
  /\ vectorizer.fitted
  /\ call.op = "transform"
  /\ call.arg = << ShortWords >>
  /\ VocabularySize = 2
  /\ vector = << << 0, 0 >> >>

TfidfFitReturned == FitReturned /\ vectorizer.class = "TfidfVectorizer"

\* the number of documents of the fitted corpus that hold token t
DfOf(t) ==
  Cardinality({ d \in 1..Len(call.arg) : t \in Range(Analyze(call.arg[d])) })

\* the idf the fitted table gives token t
IdfOf(t) == vectorizer.idf_[vectorizer.vocabulary_[t] + 1]

IdfDecreasesAndMinimum ==
  /\ Len(vectorizer.idf_) = VocabularySize
  /\ \A t, u \in DOMAIN vectorizer.vocabulary_ :
       DfOf(t) < DfOf(u) => IdfOf(t) > IdfOf(u)
  /\ \A t \in DOMAIN vectorizer.vocabulary_ :
       DfOf(t) = Len(call.arg) =>
         /\ IdfOf(t) = Scale
         /\ \A u \in DOMAIN vectorizer.vocabulary_ : IdfOf(t) <= IdfOf(u)
  /\ call.arg = Text3 =>
       vectorizer.idf_ = << 1693, 1288, 1288, 1693, 1693, 1693, 1693, 1000 >>

\* C6 as claimed: after a TF-IDF fit, idf strictly decreases as document
\* frequency increases, a token of every document has the minimum idf of the
\* table, and a token of exactly one document has a strictly higher idf than
\* a token of every document, whatever the size of the corpus.
C6_AsClaimed ==
  TfidfFitReturned =>
    /\ IdfDecreasesAndMinimum
    /\ \A t, u \in DOMAIN vectorizer.vocabulary_ :
         (DfOf(t) = Len(call.arg) /\ DfOf(u) = 1) => IdfOf(u) > IdfOf(t)

\* C6: after a TF-IDF fit, idf strictly decreases as document frequency
\* increases, a token of every document has idf 1.0, the minimum of the
\* table, and, when the corpus has at least two documents, a token of exactly
\* one document has a strictly higher idf than a token of every document; the
\* table of the notebook's three documents is the one the notebook prints.
C6_IdfDecreasesWithDf ==
  TfidfFitReturned =>
    /\ IdfDecreasesAndMinimum
    /\ Len(call.arg) >= 2 =>
         \A t, u \in DOMAIN vectorizer.vocabulary_ :
           (DfOf(t) = Len(call.arg) /\ DfOf(u) = 1) => IdfOf(u) > IdfOf(t)

\* a fit on "Jumped dog." and "dog.": "dog" is in both documents, "jumped"
\* in one
C6_Witness ==
  /\ TfidfFitReturned
  /\ call.arg = << JumpedDog, DogOnly >>
  /\ DfOf(Dog) = 2
  /\ DfOf(Jumped) = 1
  /\ IdfOf(Dog) = Scale
  /\ IdfOf(Jumped) > Scale

\* the tolerance on the squared norm: one percent of Scale * Scale
NormTol == 10 * Scale

UnitNorm(row) ==
  /\ SumSquares(row, 1) >= Scale * Scale - NormTol
  /\ SumSquares(row, 1) <= Scale * Scale + NormTol

\* document d of the last transform gives a zero row before normalization
ZeroBeforeNormalize(d) ==
  IF vectorizer.class = "TfidfVectorizer"
  THEN NoKnownToken(call.arg[d])
  ELSE IsZeroRow(HashCounts(vectorizer.n_features, << call.arg[d] >>)[1])

\* C7: every row a TF-IDF or Hashing transform returns is all-zero when the
\* row before normalization is all-zero, in particular when the document has
\* no token, and has L2 norm 1.0 (within NormTol) otherwise.
C7_UnitNormOrZero ==
  (call.op = "transform" /\ raised = "None"
   /\ vectorizer.class \in { "TfidfVectorizer", "HashingVectorizer" }) =>
    /\ Len(vector) = Len(call.arg)
    /\ \A d \in 1..Len(call.arg) :
         /\ Analyze(call.arg[d]) = <<>> => IsZeroRow(vector[d])
         /\ ZeroBeforeNormalize(d) => IsZeroRow(vector[d])
         /\ ~ZeroBeforeNormalize(d) => UnitNorm(vector[d])

\* the row the notebook prints for the quick-brown-fox sentence hashed into
\* 20 slots: -2/3 at slot 18, and 0 at slot 13 where two tokens cancel
C7_Witness ==
  /\ vectorizer.class = "HashingVectorizer"
  /\ vectorizer.n_features = NotebookWidth
  /\ call.op = "transform"
  /\ call.arg = Text1
  /\ vector = << << 0, 0, 0, 0, 0, 333, 0, -333, 333, 0, 0, 333, 0, 0, 0,
                    -333, 0, 0, -667, 0 >> >>

\* the signed number of tokens of toks that belong to slot
SlotTally(toks, n_features, slot) ==
  Cardinality({ i \in 1..Len(toks) :
                  HashIndex(toks[i], n_features) = slot /\ HashSign(toks[i]) = 1 })
  - Cardinality({ i \in 1..Len(toks) :
                    HashIndex(toks[i], n_features) = slot
                    /\ HashSign(toks[i]) = -1 })

IsDigitsOnly(tok) == \A i \in 1..Len(tok) : IsDigit(tok[i])

\* the maximal runs of word characters of s that are two or more long, as
\* pairs of first and last position
WordRuns(s) ==
  { r \in (1..Len(s)) \X (1..Len(s)) :
      /\ r[2] >= r[1] + 1
      /\ \A i \in r[1]..r[2] : IsWordChar(s[i])
      /\ (r[1] = 1 \/ ~IsWordChar(s[r[1] - 1]))
      /\ (r[2] = Len(s) \/ ~IsWordChar(s[r[2] + 1])) }

TokensAreWordRuns ==
  LET s == Lower(raw_text)
      runs == WordRuns(s)
  IN  /\ Len(tokens) = Cardinality(runs)
      /\ \A r \in runs :
           tokens[Cardinality({ q \in runs : q[1] <= r[1] })]
             = SubSeq(s, r[1], r[2])

\* C10 as claimed: every token the analyzer returns is two or more characters
\* long and made of lowercase letters only, so no digits-only token is ever
\* returned.
C10_AsClaimed ==
  call.op = "analyze" =>
    \A i \in 1..Len(tokens) :
      /\ Len(tokens[i]) >= 2
      /\ \A k \in 1..Len(tokens[i]) : IsLowerAlpha(tokens[i][k])
      /\ ~IsDigitsOnly(tokens[i])

\* C10: the tokens the analyzer returns are, in order, the maximal runs of
\* two or more word characters (letters, digits, underscore) of the
\* lower-cased text: each is at least 2 long and holds no upper-case letter
\* and no punctuation, and a text of two or more digits is itself a token.
C10_TokensAreLowercaseWordRuns ==
  call.op = "analyze" =>
    /\ TokensAreWordRuns
    /\ \A i \in 1..Len(tokens) :
         /\ Len(tokens[i]) >= 2
         /\ \A k \in 1..Len(tokens[i]) :
              /\ ~IsUpper(tokens[i][k])
              /\ \/ IsLowerAlpha(tokens[i][k])
                 \/ IsDigit(tokens[i][k])
                 \/ tokens[i][k] = "_"
    /\ (Len(raw_text) >= 2 /\ IsDigitsOnly(raw_text)) => tokens = << raw_text >>

\* "T4.": the letter is lower-cased, the digit kept, the full stop dropped
C10_Witness ==
  /\ call.op = "analyze"
  /\ raw_text = << "T", "4", "." >>
  /\ tokens = << << "t", "4" >> >>

====
